---- MODULE Spec2Model ----
(***************************************************************************)
(* A model of the ring-buffer deque of src/deque.go.                       *)
(*                                                                         *)
(* A Deque is the record [nil, buf, head, tail, mask]: buf is a function   *)
(* on 0..cap-1 (the Go slice d.buf), head, tail and mask are unsigned      *)
(* machine words (arithmetic modulo Word), and nil tells a nil *Deque.     *)
(* Every method of the source is an operator on such records, computed as  *)
(* the code computes it; the actions apply the methods to the variable d.  *)
(***************************************************************************)
EXTENDS Integers, Sequences, FiniteSets, TLC

\* ------------------------------------------------------------------ bounds
\* Width in bits of uint and int in the model (bits.UintSize, scaled down).
UintSize == 6
\* Element values are 0..MaxVal; Zero is the element type's zero value.
MaxVal == 1
\* The largest buffer the model allocates.
MaxCap == 4
\* The longest argument list of one PushBack / PushFront call.
MaxBatch == 2
\* head and tail stay within MaxCounter of zero (as signed words).
MaxCounter == 3

Pow2(k) == 2 ^ k
Word == Pow2(UintSize)
Zero == 0
Values == 0..MaxVal

\* ------------------------------------------------- machine-word arithmetic
\* uint addition, subtraction, shifts: modulo Word.
Add(x, y) == (x + y) % Word
Sub(x, y) == (x - y + Word) % Word
Shl(x, k) == (x * Pow2(k)) % Word
Shr(x, k) == x \div Pow2(k)
\* uint(i) of an int and int(u) of a uint: two's complement.
ToUint(i) == (i + Word) % Word
ToInt(u) == IF u >= Word \div 2 THEN u - Word ELSE u
\* math.MaxInt
MaxInt == Word \div 2 - 1

\* x & y, bit by bit.
RECURSIVE BitAnd(_, _)
BitAnd(x, y) ==
  IF x = 0 \/ y = 0 THEN 0
  ELSE (x % 2) * (y % 2) + 2 * BitAnd(x \div 2, y \div 2)

\* bits.Len: the number of bits needed to represent x.
RECURSIVE BitLen(_)
BitLen(x) == IF x = 0 THEN 0 ELSE 1 + BitLen(x \div 2)

\* bits.LeadingZeros
LeadingZeros(x) == UintSize - BitLen(x)

Min2(a, b) == IF a <= b THEN a ELSE b
Max2(a, b) == IF a >= b THEN a ELSE b

\* ceilPow2 with the rounding step left out (returns the largest power of
\* two <= x).
ceilPow2NoRound(x) ==
  IF x = 0 THEN 1 ELSE Shl(1, UintSize - 1 - LeadingZeros(x))

\* ceilPow2 that only maps 0 to 1 and rounds nothing.
ceilPow2Identity(x) == IF x = 0 THEN 1 ELSE x

ceilPow2(x) ==
  IF x = 0 THEN 1
  ELSE LET msb == UintSize - 1 - LeadingZeros(x)
           result == Shl(1, msb)
       IN IF result < x THEN Shl(result, 1) ELSE result

\* -------------------------------------------------------------- the deque
\* make([]T, c)
MakeBuf(c) == [i \in 0..(c - 1) |-> Zero]

NilDeque == [nil |-> TRUE, buf |-> MakeBuf(0), head |-> 0, tail |-> 0, mask |-> 0]

cap(dq) == Cardinality(DOMAIN dq.buf)
Cap(dq) == ToInt(cap(dq))
len(dq) == Sub(dq.tail, dq.head)
\* Len() (the name Len is the sequences' length operator here).
DequeLen(dq) == IF dq.nil THEN 0 ELSE ToInt(len(dq))
Empty(dq) == dq.tail = dq.head
Full(dq) == len(dq) = cap(dq)

\* The returned pair (*Deque, error).
MakeDequeWithCapacity(capacity) ==
  IF capacity < 0
  THEN [d |-> NilDeque, err |-> "ErrNegativeCapacity"]
  ELSE LET c == ceilPow2(Max2(1, ToUint(capacity)))
       IN [d |-> [nil |-> FALSE, buf |-> MakeBuf(c), head |-> 0, tail |-> 0,
                  mask |-> Sub(c, 1)],
           err |-> "nil"]

\* copy(dst, src) on a whole buffer: min(len(dst), len(src)) elements.
CopyInto(buf, s) ==
  [i \in DOMAIN buf |-> IF i < Len(s) THEN s[i + 1] ELSE buf[i]]

CopySliceToDeque(s) ==
  LET dq == MakeDequeWithCapacity(Len(s)).d
  IN [dq EXCEPT !.buf = CopyInto(dq.buf, s)]

\* The physical slot of logical position i: (head + i) & mask.
Slot(dq, i) == BitAnd(Add(dq.head, ToUint(i)), dq.mask)

AtUnsafe(dq, i) == dq.buf[Slot(dq, i)]

\* checkBounds(i) panics.
OutOfBounds(dq, i) == i < 0 \/ i >= DequeLen(dq)

\* At(i): the element, or a panic.
At(dq, i) ==
  IF OutOfBounds(dq, i) THEN [panic |-> TRUE, t |-> Zero]
  ELSE [panic |-> FALSE, t |-> AtUnsafe(dq, i)]

\* buf[k] with Go's run-time index check: the element, or a panic.
Index(buf, k) ==
  IF k \in DOMAIN buf THEN [panic |-> FALSE, t |-> buf[k]]
  ELSE [panic |-> TRUE, t |-> Zero]

\* SetUnsafe writing slot head + i, unmasked.
SetUnsafeNoMask(dq, i, t) ==
  LET k == Add(dq.head, ToUint(i))
  IN IF k \in DOMAIN dq.buf
     THEN [panic |-> FALSE, d |-> [dq EXCEPT !.buf[k] = t]]
     ELSE [panic |-> TRUE, d |-> dq]

\* SetUnsafe(i, t): the deque afterwards, or a panic of the index check.
SetUnsafe(dq, i, t) ==
  LET k == Slot(dq, i)
  IN IF k \in DOMAIN dq.buf
     THEN [panic |-> FALSE, d |-> [dq EXCEPT !.buf[k] = t]]
     ELSE [panic |-> TRUE, d |-> dq]

\* Set(i, t): checkBounds, then SetUnsafe.
Set(dq, i, t) ==
  IF OutOfBounds(dq, i) THEN [panic |-> TRUE, d |-> dq]
  ELSE SetUnsafe(dq, i, t)

\* SwapUnsafe(i, j): a, b := AtUnsafe(i), AtUnsafe(j); SetUnsafe(i, b);
\* SetUnsafe(j, a).
SwapUnsafe(dq, i, j) ==
  LET a == Index(dq.buf, Slot(dq, i))
      b == Index(dq.buf, Slot(dq, j))
  IN IF a.panic \/ b.panic THEN [panic |-> TRUE, d |-> dq]
     ELSE LET first == SetUnsafe(dq, i, b.t)
          IN IF first.panic THEN first ELSE SetUnsafe(first.d, j, a.t)

\* Swap checking its first index only.
SwapCheckFirst(dq, i, j) ==
  IF OutOfBounds(dq, i) THEN [panic |-> TRUE, d |-> dq]
  ELSE SwapUnsafe(dq, i, j)

\* Swap(i, j): checkBounds(i), checkBounds(j), then SwapUnsafe.
Swap(dq, i, j) ==
  IF OutOfBounds(dq, i) \/ OutOfBounds(dq, j) THEN [panic |-> TRUE, d |-> dq]
  ELSE SwapUnsafe(dq, i, j)

\* The logical sequence At(0), ..., At(Len-1), as a 1-based sequence.
Logical(dq) == [k \in 1..DequeLen(dq) |-> AtUnsafe(dq, k - 1)]

\* resize with the copy loop reading physical slot i instead of
\* (head + i) & mask.
resizeNoRotate(dq, newCap) ==
  IF newCap = cap(dq) THEN [d |-> dq, err |-> "ErrSameCapacity"]
  ELSE IF len(dq) > newCap THEN [d |-> dq, err |-> "ErrNotEnoughCapacity"]
  ELSE [d |-> [nil |-> FALSE,
               buf |-> [i \in 0..(newCap - 1) |->
                          IF i < len(dq) THEN dq.buf[BitAnd(i, dq.mask)] ELSE Zero],
               head |-> 0, tail |-> len(dq), mask |-> Sub(newCap, 1)],
        err |-> "nil"]

\* resize without the same-capacity check.
resizeNoSameCheck(dq, newCap) ==
  IF len(dq) > newCap THEN [d |-> dq, err |-> "ErrNotEnoughCapacity"]
  ELSE [d |-> [nil |-> FALSE,
               buf |-> [i \in 0..(newCap - 1) |->
                          IF i < len(dq)
                          THEN dq.buf[BitAnd(Add(dq.head, i), dq.mask)]
                          ELSE Zero],
               head |-> 0, tail |-> len(dq), mask |-> Sub(newCap, 1)],
        err |-> "nil"]

\* The returned error and the deque afterwards.
resize(dq, newCap) ==
  IF newCap = cap(dq) THEN [d |-> dq, err |-> "ErrSameCapacity"]
  ELSE LET oldLen == len(dq)
       IN IF oldLen > newCap THEN [d |-> dq, err |-> "ErrNotEnoughCapacity"]
          ELSE LET newBuf == [i \in 0..(newCap - 1) |->
                                IF i < oldLen
                                THEN dq.buf[BitAnd(Add(dq.head, i), dq.mask)]
                                ELSE Zero]
               IN [d |-> [nil |-> FALSE, buf |-> newBuf, head |-> 0,
                          tail |-> oldLen, mask |-> Sub(newCap, 1)],
                   err |-> "nil"]

\* for i, t := range ts { buf[(base + i) & mask] = t }, from index i on.
RECURSIVE WriteUp(_, _, _, _, _)
WriteUp(buf, base, mask, ts, i) ==
  IF i >= Len(ts) THEN buf
  ELSE WriteUp([buf EXCEPT ![BitAnd(Add(base, i), mask)] = ts[i + 1]],
               base, mask, ts, i + 1)

\* for i, t := range ts { buf[(base - i) & mask] = t }, from index i on.
RECURSIVE WriteDown(_, _, _, _, _)
WriteDown(buf, base, mask, ts, i) ==
  IF i >= Len(ts) THEN buf
  ELSE WriteDown([buf EXCEPT ![BitAnd(Sub(base, i), mask)] = ts[i + 1]],
                 base, mask, ts, i + 1)

\* A push that never reallocates.
GrownNever(dq, n) == dq

\* The deque a push works on: reallocated when len + n > cap.
Grown(dq, n) ==
  IF Add(len(dq), n) > cap(dq)
  THEN resize(dq, ceilPow2(Add(len(dq), n))).d
  ELSE dq

PushBack(dq, ts) ==
  LET n == ToUint(Len(ts))
      g == Grown(dq, n)
  IN [g EXCEPT !.buf = WriteUp(g.buf, g.tail, g.mask, ts, 0),
               !.tail = Add(g.tail, n)]

\* PushFront writing its arguments upwards from the new head (the first
\* argument becomes the front).
PushFrontForward(dq, ts) ==
  LET n == ToUint(Len(ts))
      g == Grown(dq, n)
  IN [g EXCEPT !.buf = WriteUp(g.buf, Sub(g.head, n), g.mask, ts, 0),
               !.head = Sub(g.head, n)]

PushFront(dq, ts) ==
  LET n == ToUint(Len(ts))
      g == Grown(dq, n)
      base == Sub(g.head, 1)
  IN [g EXCEPT !.buf = WriteDown(g.buf, base, g.mask, ts, 0),
               !.head = Sub(g.head, n)]

\* PeekBackUnsafe reading the slot at tail instead of tail - 1.
PeekBackUnsafeAtTail(dq) == dq.buf[BitAnd(dq.tail, dq.mask)]

PeekBackUnsafe(dq) == dq.buf[BitAnd(Sub(dq.tail, 1), dq.mask)]
PeekFrontUnsafe(dq) == dq.buf[BitAnd(dq.head, dq.mask)]

\* The returned pair (t, ok).
PeekBack(dq) ==
  IF Empty(dq) THEN [t |-> Zero, ok |-> FALSE]
  ELSE [t |-> PeekBackUnsafe(dq), ok |-> TRUE]

PeekFront(dq) ==
  IF Empty(dq) THEN [t |-> Zero, ok |-> FALSE]
  ELSE [t |-> PeekFrontUnsafe(dq), ok |-> TRUE]

\* Pops return the pair (t, ok) and the deque afterwards.
PopBack(dq) ==
  LET p == PeekBack(dq)
  IN [t |-> p.t, ok |-> p.ok,
      d |-> IF p.ok THEN [dq EXCEPT !.tail = Sub(dq.tail, 1)] ELSE dq]

PopFront(dq) ==
  LET p == PeekFront(dq)
  IN [t |-> p.t, ok |-> p.ok,
      d |-> IF p.ok THEN [dq EXCEPT !.head = Add(dq.head, 1)] ELSE dq]

\* d.buf[d.tail & d.mask] = zero after a successful PopBack.
PopBackZero(dq) ==
  LET r == PopBack(dq)
  IN IF r.ok
     THEN [r EXCEPT !.d.buf[BitAnd(r.d.tail, r.d.mask)] = Zero]
     ELSE r

\* PopFrontZero zeroing the slot at the new head instead of the one before.
PopFrontZeroAtHead(dq) ==
  LET r == PopFront(dq)
  IN IF r.ok
     THEN [r EXCEPT !.d.buf[BitAnd(r.d.head, r.d.mask)] = Zero]
     ELSE r

\* d.buf[(d.head - 1) & d.mask] = zero after a successful PopFront.
PopFrontZero(dq) ==
  LET r == PopFront(dq)
  IN IF r.ok
     THEN [r EXCEPT !.d.buf[BitAnd(Sub(r.d.head, 1), r.d.mask)] = Zero]
     ELSE r

\* The shrinking pops without their shrink.
ShrinkIfSparseNever(dq) == dq

\* if d.len() <= d.cap()>>2 { d.resize(ceilPow2(d.len() << 1)) }
ShrinkIfSparse(dq) ==
  IF len(dq) <= Shr(cap(dq), 2)
  THEN resize(dq, ceilPow2(Shl(len(dq), 1))).d
  ELSE dq

PopBackShrink(dq) ==
  LET p == PeekBack(dq)
      popped == IF p.ok THEN [dq EXCEPT !.tail = Sub(dq.tail, 1)] ELSE dq
  IN [t |-> p.t, ok |-> p.ok, d |-> ShrinkIfSparse(popped)]

PopFrontShrink(dq) ==
  LET p == PeekFront(dq)
      popped == IF p.ok THEN [dq EXCEPT !.head = Add(dq.head, 1)] ELSE dq
  IN [t |-> p.t, ok |-> p.ok, d |-> ShrinkIfSparse(popped)]

DropFront(dq, n) ==
  IF n >= 0
  THEN [dq EXCEPT !.head = Add(dq.head, Min2(ToUint(n), len(dq)))]
  ELSE dq

\* DropBack moving tail by n, not by min(n, len).
DropBackNoMin(dq, n) ==
  IF n >= 0
  THEN [dq EXCEPT !.tail = Sub(dq.tail, ToUint(n))]
  ELSE dq

DropBack(dq, n) ==
  IF n >= 0
  THEN [dq EXCEPT !.tail = Sub(dq.tail, Min2(ToUint(n), len(dq)))]
  ELSE dq

\* for i := from; i < bound; i++ { buf[i & mask] = zero }, on unsigned words.
RECURSIVE ZeroLoop(_, _, _, _)
ZeroLoop(buf, i, bound, mask) ==
  IF i < bound
  THEN ZeroLoop([buf EXCEPT ![BitAnd(i, mask)] = Zero], Add(i, 1), bound, mask)
  ELSE buf

DropFrontZero(dq, n) ==
  IF n >= 0
  THEN LET k == Min2(ToUint(n), len(dq))
           bound == Add(dq.head, k)
       IN [dq EXCEPT !.buf = ZeroLoop(dq.buf, dq.head, bound, dq.mask),
                     !.head = Add(dq.head, k)]
  ELSE dq

DropBackZero(dq, n) ==
  IF n >= 0
  THEN LET k == Min2(ToUint(n), len(dq))
       IN [dq EXCEPT !.buf = ZeroLoop(dq.buf, Sub(dq.tail, k), dq.tail, dq.mask),
                     !.tail = Sub(dq.tail, k)]
  ELSE dq

\* ClearLazy moving head up to tail.
ClearLazyToTail(dq) == [dq EXCEPT !.head = dq.tail]

ClearLazy(dq) == [dq EXCEPT !.head = 0, !.tail = 0]

ClearEager(dq) ==
  [dq EXCEPT !.buf = ZeroLoop(dq.buf, dq.head, dq.tail, dq.mask),
             !.head = 0, !.tail = 0]

\* Resize, Reserve: the returned error and the deque afterwards.
Resize(dq, minCapacity) ==
  IF minCapacity < 0
  THEN [d |-> dq, err |-> "ErrNegativeCapacity"]
  ELSE resize(dq, ceilPow2(ToUint(minCapacity)))

\* Reserve: resize's error is dropped, whichever it is.
Reserve(dq, n) ==
  IF n < 0
  THEN [d |-> dq, err |-> "ErrNegativeCapacity"]
  ELSE [d |-> resize(dq, ceilPow2(Add(len(dq), ToUint(n)))).d, err |-> "nil"]

\* Shrink: the returned capacity and the deque afterwards.
Shrink(dq) ==
  LET newCap == ceilPow2(len(dq))
  IN [d |-> resize(dq, newCap).d, n |-> newCap]

\* ------------------------------------------------------------- Go slices
\* A slice is a view [off, off+len) of the array arr, which it may be
\* re-sliced up to cap; NilSlice is the nil slice. A slice expression out of
\* range panics.
NilSlice == [panic |-> FALSE, nil |-> TRUE, arr |-> MakeBuf(0), off |-> 0, len |-> 0, cap |-> 0]
PanicSlice == [NilSlice EXCEPT !.panic = TRUE]

\* s[lo:hi]
Reslice(s, lo, hi) ==
  IF s.panic \/ ~(0 <= lo /\ lo <= hi /\ hi <= s.cap) THEN PanicSlice
  ELSE [s EXCEPT !.off = s.off + lo, !.len = hi - lo, !.cap = s.cap - lo]

\* s[lo:] and s[:hi]
SliceFrom(s, lo) == Reslice(s, lo, s.len)
SliceTo(s, hi) == Reslice(s, 0, hi)

\* buf[lo:hi] of a whole buffer
BufSlice(buf, lo, hi) ==
  Reslice([panic |-> FALSE, nil |-> FALSE, arr |-> buf, off |-> 0,
           len |-> Cardinality(DOMAIN buf), cap |-> Cardinality(DOMAIN buf)],
          lo, hi)

Elem(s, i) == s.arr[s.off + i]
\* The elements of a slice, as a sequence.
Elems(s) == [k \in 1..s.len |-> Elem(s, k - 1)]

\* slices() with the two runs returned in the other order when the live
\* region is split.
slicesSwapped(dq) ==
  IF dq.nil \/ Empty(dq) THEN <<NilSlice, NilSlice>>
  ELSE LET h == BitAnd(dq.head, dq.mask)
           t == BitAnd(dq.tail, dq.mask)
       IN IF h < t THEN <<BufSlice(dq.buf, h, t), NilSlice>>
          ELSE <<BufSlice(dq.buf, 0, t), BufSlice(dq.buf, h, cap(dq))>>

\* The pair (a, b) of runs.
slices(dq) ==
  IF dq.nil \/ Empty(dq) THEN <<NilSlice, NilSlice>>
  ELSE LET h == BitAnd(dq.head, dq.mask)
           t == BitAnd(dq.tail, dq.mask)
       IN IF h < t THEN <<BufSlice(dq.buf, h, t), NilSlice>>
          ELSE <<BufSlice(dq.buf, h, cap(dq)), BufSlice(dq.buf, 0, t)>>

\* slices.Equal(a, b) on slice expressions: "panic" when one of them
\* panicked, else "true" or "false".
SlicesEqual(a, b) ==
  IF a.panic \/ b.panic THEN "panic"
  ELSE IF a.len = b.len /\ \A i \in 0..(a.len - 1) : Elem(a, i) = Elem(b, i)
       THEN "true" ELSE "false"

\* x && y && z, left to right, stopping at the first false or panic.
AndThen(x, y, z) == IF x # "true" THEN x ELSE IF y # "true" THEN y ELSE z

\* Equal taking a nil deque for an empty one, as slices.Equal takes a nil
\* slice.
EqualNilIsEmpty(d1, d2) ==
  IF DequeLen(d1) = 0 /\ DequeLen(d2) = 0 THEN "true"
  ELSE IF d1.nil \/ d2.nil THEN "false"
  ELSE IF Logical(d1) = Logical(d2) THEN "true" ELSE "false"

\* Equal(d1, d2): "true", "false" or "panic".
Equal(d1, d2) ==
  IF d1.nil \/ d2.nil THEN (IF d1.nil /\ d2.nil THEN "true" ELSE "false")
  ELSE IF len(d1) # len(d2) THEN "false"
  ELSE LET s11 == slices(d1)[1]
           s12 == slices(d1)[2]
           s21 == slices(d2)[1]
           s22 == slices(d2)[2]
       IN IF s11.len <= s12.len
          THEN AndThen(
                 SlicesEqual(s11, SliceTo(s12, s11.len)),
                 SlicesEqual(SliceFrom(s12, s11.len), SliceTo(s21, s12.len - s11.len)),
                 SlicesEqual(SliceFrom(s21, s21.len - s22.len), s22))
          ELSE AndThen(
                 SlicesEqual(s12, SliceTo(s11, s12.len)),
                 SlicesEqual(SliceFrom(s11, s12.len), SliceTo(s22, s11.len - s12.len)),
                 SlicesEqual(SliceFrom(s22, s22.len - s21.len), s21))

\* copy(dst[off:], src) for a destination held as a sequence and a source
\* slice: the destination afterwards and the number of elements copied; the
\* slice expression dst[off:] panics when off is outside 0..len(dst).
CopyAt(dst, off, src) ==
  IF src.panic \/ off < 0 \/ off > Len(dst)
  THEN [panic |-> TRUE, n |-> 0, buf |-> dst]
  ELSE LET n == Min2(Len(dst) - off, src.len)
       IN [panic |-> FALSE, n |-> n,
           buf |-> [k \in 1..Len(dst) |->
                      IF k > off /\ k <= off + n THEN Elem(src, k - off - 1)
                      ELSE dst[k]]]

\* CopySlice copying the second run to the start of buf.
CopySliceSecondAtStart(dq, start, buf) ==
  LET s1 == slices(dq)[1]
      s2 == slices(dq)[2]
      L1 == s1.len
  IN IF start < L1
     THEN LET first == CopyAt(buf, 0, SliceFrom(s1, start))
              end == start + Len(buf)
          IN IF first.panic \/ ~(end > L1) THEN first
             ELSE LET second == CopyAt(first.buf, 0, s2)
                  IN [second EXCEPT !.n = first.n + second.n]
     ELSE CopyAt(buf, 0, SliceFrom(s2, start - L1))

\* CopySlice(start, buf): whether it panicked, the count returned and buf
\* afterwards.
CopySlice(dq, start, buf) ==
  LET s1 == slices(dq)[1]
      s2 == slices(dq)[2]
      L1 == s1.len
  IN IF start < L1
     THEN LET first == CopyAt(buf, 0, SliceFrom(s1, start))
              end == start + Len(buf)
          IN IF first.panic \/ ~(end > L1) THEN first
             ELSE LET second == CopyAt(first.buf, L1 - start, s2)
                  IN [second EXCEPT !.n = first.n + second.n]
     ELSE CopyAt(buf, 0, SliceFrom(s2, start - L1))

\* make([]T, n): n zero elements.
Zeros(n) == [k \in 1..n |-> Zero]
\* a - b on ints.
IntSub(a, b) == ToInt(ToUint(a - b))

\* MakeSliceIndexCopy(start, end): the slice returned, or a panic (of make
\* for a negative length, or of CopySlice).
MakeSliceIndexCopy(dq, start, end) ==
  IF IntSub(end, start) < 0 THEN [panic |-> TRUE, s |-> <<>>]
  ELSE LET r == CopySlice(dq, start, Zeros(IntSub(end, start)))
       IN [panic |-> r.panic, s |-> r.buf]

\* MakeSliceIndexCopyWithCapacity(start, end, capacity): s is made with
\* capacity elements, CopySlice fills s[:end-start], and s is returned.
MakeSliceIndexCopyWithCapacity(dq, start, end, capacity) ==
  LET n == IntSub(end, start)
  IN IF capacity < 0 \/ n < 0 \/ n > capacity THEN [panic |-> TRUE, s |-> <<>>]
     ELSE LET r == CopySlice(dq, start, Zeros(n))
          IN [panic |-> r.panic,
              s |-> IF r.panic THEN <<>> ELSE r.buf \o Zeros(capacity - n)]

\* slices.Max(s) and slices.Min(s): the element, or a panic on an empty
\* slice.
SlicesMax(s) ==
  IF s.panic \/ s.len = 0 THEN [panic |-> TRUE, t |-> Zero]
  ELSE [panic |-> FALSE,
        t |-> CHOOSE m \in {Elem(s, i) : i \in 0..(s.len - 1)} :
                \A i \in 0..(s.len - 1) : Elem(s, i) <= m]

SlicesMin(s) ==
  IF s.panic \/ s.len = 0 THEN [panic |-> TRUE, t |-> Zero]
  ELSE [panic |-> FALSE,
        t |-> CHOOSE m \in {Elem(s, i) : i \in 0..(s.len - 1)} :
                \A i \in 0..(s.len - 1) : m <= Elem(s, i)]

\* Max(d): slices.Max of the first run, combined with that of the second
\* run when the second run is not nil.
Max(dq) ==
  LET s1 == slices(dq)[1]
      s2 == slices(dq)[2]
      m1 == SlicesMax(s1)
      m2 == SlicesMax(s2)
  IN IF m1.panic \/ s2.nil THEN m1
     ELSE IF m2.panic THEN m2
     ELSE [panic |-> FALSE, t |-> Max2(m1.t, m2.t)]

Min(dq) ==
  LET s1 == slices(dq)[1]
      s2 == slices(dq)[2]
      m1 == SlicesMin(s1)
      m2 == SlicesMin(s2)
  IN IF m1.panic \/ s2.nil THEN m1
     ELSE IF m2.panic THEN m2
     ELSE [panic |-> FALSE, t |-> Min2(m1.t, m2.t)]

\* MakeSliceCopy(): make([]T, d.len()) filled by CopySlice(0, s).
MakeSliceCopy(dq) == CopySlice(dq, 0, Zeros(ToInt(len(dq)))).buf

\* The comparators given to MaxFunc and MinFunc: the natural order, its
\* reverse, and the one that finds every two elements equal.
Comparators == {"natural", "reversed", "equal"}
Cmp(c, a, b) ==
  LET natural == IF a < b THEN -1 ELSE IF a > b THEN 1 ELSE 0
  IN IF c = "natural" THEN natural
     ELSE IF c = "reversed" THEN -natural
     ELSE 0

\* slices.MaxFunc over the elements x from position i on, m being the
\* maximum so far: the first maximal element.
RECURSIVE MaxFuncFrom(_, _, _, _)
MaxFuncFrom(x, c, i, m) ==
  IF i > Len(x) THEN m
  ELSE MaxFuncFrom(x, c, i + 1, IF Cmp(c, x[i], m) > 0 THEN x[i] ELSE m)

\* slices.MinFunc likewise: the first minimal element.
RECURSIVE MinFuncFrom(_, _, _, _)
MinFuncFrom(x, c, i, m) ==
  IF i > Len(x) THEN m
  ELSE MinFuncFrom(x, c, i + 1, IF Cmp(c, x[i], m) < 0 THEN x[i] ELSE m)

\* slices.MaxFunc(x, cmp) and slices.MinFunc(x, cmp) for the elements x of a
\* slice: the element, or a panic when there is none.
SeqMaxFunc(x, c) ==
  IF x = <<>> THEN [panic |-> TRUE, t |-> Zero]
  ELSE [panic |-> FALSE, t |-> MaxFuncFrom(x, c, 2, x[1])]

SeqMinFunc(x, c) ==
  IF x = <<>> THEN [panic |-> TRUE, t |-> Zero]
  ELSE [panic |-> FALSE, t |-> MinFuncFrom(x, c, 2, x[1])]

\* MaxFunc(d, cmp): slices.MaxFunc of the first run, combined by the
\* built-in max with that of the second run when the second run is not nil.
MaxFunc(dq, c) ==
  LET s1 == slices(dq)[1]
      s2 == slices(dq)[2]
      m1 == SeqMaxFunc(Elems(s1), c)
      m2 == SeqMaxFunc(Elems(s2), c)
  IN IF m1.panic \/ s2.nil THEN m1
     ELSE IF m2.panic THEN m2
     ELSE [panic |-> FALSE, t |-> Max2(m1.t, m2.t)]

\* MinFunc(d, cmp), with the built-in min.
MinFunc(dq, c) ==
  LET s1 == slices(dq)[1]
      s2 == slices(dq)[2]
      m1 == SeqMinFunc(Elems(s1), c)
      m2 == SeqMinFunc(Elems(s2), c)
  IN IF m1.panic \/ s2.nil THEN m1
     ELSE IF m2.panic THEN m2
     ELSE [panic |-> FALSE, t |-> Min2(m1.t, m2.t)]

\* All(): the pairs handed to a yield that always returns true. The first
\* loop assigns the outer i, which is left at the last index of the first
\* run (0 when that run is empty); the second loop yields i, then i++.
All(dq) ==
  IF dq.nil THEN <<>>
  ELSE LET s1 == Elems(slices(dq)[1])
           s2 == Elems(slices(dq)[2])
           i == IF s1 = <<>> THEN 0 ELSE Len(s1) - 1
       IN [k \in 1..Len(s1) |-> <<k - 1, s1[k]>>]
            \o [k \in 1..Len(s2) |-> <<i + k - 1, s2[k]>>]

\* Iter(): the elements handed to a yield that always returns true.
Iter(dq) ==
  IF dq.nil THEN <<>>
  ELSE Elems(slices(dq)[1]) \o Elems(slices(dq)[2])

\* slices.Index(x, t) for the elements x of a slice: the first position
\* (from 0) holding t, or -1.
SlicesIndex(x, t) ==
  IF \E k \in 1..Len(x) : x[k] = t
  THEN (CHOOSE k \in 1..Len(x) : x[k] = t /\ \A m \in 1..(k - 1) : x[m] # t) - 1
  ELSE -1

\* Index of the second run returned as it is, len(s1) not added.
DequeIndexNoOffset(dq, t) ==
  LET s1 == Elems(slices(dq)[1])
      s2 == Elems(slices(dq)[2])
  IN IF SlicesIndex(s1, t) # -1 THEN SlicesIndex(s1, t)
     ELSE IF SlicesIndex(s2, t) # -1 THEN SlicesIndex(s2, t)
     ELSE -1

\* Index(d, t) (the name Index is the buffer's index expression here).
DequeIndex(dq, t) ==
  LET s1 == Elems(slices(dq)[1])
      s2 == Elems(slices(dq)[2])
  IN IF SlicesIndex(s1, t) # -1 THEN SlicesIndex(s1, t)
     ELSE IF SlicesIndex(s2, t) # -1 THEN SlicesIndex(s2, t) + Len(s1)
     ELSE -1

\* Contains(d, t): slices.Contains(a, t) || slices.Contains(b, t).
Contains(dq, t) ==
  \/ \E k \in 1..slices(dq)[1].len : Elem(slices(dq)[1], k - 1) = t
  \/ \E k \in 1..slices(dq)[2].len : Elem(slices(dq)[2], k - 1) = t

\* ------------------------------------------------------------ the program
\* d: the deque under test; d2: a second deque (nil unless two are compared);
\* ref: the list a reference implementation holds after the same calls;
\* op, arg, ret: the last call, its arguments and what it returned;
\* realloc: whether the last call replaced d's buffer.
VARIABLES d, d2, ref, op, arg, ret, realloc

vars == <<d, d2, ref, op, arg, ret, realloc>>

\* The longest slice given to CopySliceToDeque.
MaxSlice == 3

SeqsUpTo(n) == UNION {[1..k -> Values] : k \in 0..n}

RECURSIVE Reverse(_)
Reverse(s) == IF s = <<>> THEN <<>> ELSE Append(Reverse(Tail(s)), Head(s))

NoRet == [t |-> Zero, ok |-> FALSE, err |-> "nil", n |-> 0]
NoArg == [ts |-> <<>>, n |-> 0]
RetPop(r) == [NoRet EXCEPT !.t = r.t, !.ok = r.ok]
RetErr(e) == [NoRet EXCEPT !.err = e]

\* What bounds the model: buffers of at most MaxCap slots, counters within
\* MaxCounter of zero.
Bounded(dq) ==
  /\ cap(dq) <= MaxCap
  /\ ToInt(dq.head) \in (-MaxCounter)..MaxCounter
  /\ ToInt(dq.tail) \in (-MaxCounter)..MaxCounter

\* d is made by MakeDequeWithCapacity(capacity).
InitMake(capacity) ==
  /\ d = MakeDequeWithCapacity(capacity).d
  /\ op = "MakeDequeWithCapacity"
  /\ arg = [NoArg EXCEPT !.n = capacity]
  /\ ret = RetErr(MakeDequeWithCapacity(capacity).err)
  /\ ref = <<>>
  /\ d2 = NilDeque
  /\ realloc = FALSE

\* d is made by CopySliceToDeque(s).
InitCopy(s) ==
  /\ d = CopySliceToDeque(s)
  /\ op = "CopySliceToDeque"
  /\ arg = [NoArg EXCEPT !.ts = s]
  /\ ret = NoRet
  /\ ref = s
  /\ d2 = NilDeque
  /\ realloc = FALSE

Init == \E capacity \in 0..MaxCap : InitMake(capacity)

\* One call on d: the deque, the return value and the reference list after it.
Call(name, a, newd, r, newref) ==
  LET nd == newd
  IN /\ ~d.nil
     /\ Bounded(nd)
     /\ d' = nd
     /\ op' = name
     /\ arg' = a
     /\ ret' = r
     /\ ref' = newref
     /\ realloc' = (cap(nd) # cap(d))
     /\ UNCHANGED d2

DropFirst(s, n) == SubSeq(s, Min2(n, Len(s)) + 1, Len(s))
DropLast(s, n) == SubSeq(s, 1, Len(s) - Min2(n, Len(s)))

CallPushBack(ts) ==
  Call("PushBack", [NoArg EXCEPT !.ts = ts], PushBack(d, ts), NoRet, ref \o ts)

CallPushFront(ts) ==
  Call("PushFront", [NoArg EXCEPT !.ts = ts], PushFront(d, ts), NoRet,
       Reverse(ts) \o ref)

CallPopBack ==
  Call("PopBack", NoArg, PopBack(d).d, RetPop(PopBack(d)), DropLast(ref, 1))

CallPopFront ==
  Call("PopFront", NoArg, PopFront(d).d, RetPop(PopFront(d)), DropFirst(ref, 1))

CallPopBackZero ==
  Call("PopBackZero", NoArg, PopBackZero(d).d, RetPop(PopBackZero(d)),
       DropLast(ref, 1))

CallPopFrontZero ==
  Call("PopFrontZero", NoArg, PopFrontZero(d).d, RetPop(PopFrontZero(d)),
       DropFirst(ref, 1))

CallPopBackShrink ==
  Call("PopBackShrink", NoArg, PopBackShrink(d).d, RetPop(PopBackShrink(d)),
       DropLast(ref, 1))

CallPopFrontShrink ==
  Call("PopFrontShrink", NoArg, PopFrontShrink(d).d, RetPop(PopFrontShrink(d)),
       DropFirst(ref, 1))

CallDropFront(n) ==
  Call("DropFront", [NoArg EXCEPT !.n = n], DropFront(d, n), NoRet,
       IF n >= 0 THEN DropFirst(ref, n) ELSE ref)

CallDropFrontZero(n) ==
  Call("DropFrontZero", [NoArg EXCEPT !.n = n], DropFrontZero(d, n), NoRet,
       IF n >= 0 THEN DropFirst(ref, n) ELSE ref)

CallDropBack(n) ==
  Call("DropBack", [NoArg EXCEPT !.n = n], DropBack(d, n), NoRet,
       IF n >= 0 THEN DropLast(ref, n) ELSE ref)

CallDropBackZero(n) ==
  Call("DropBackZero", [NoArg EXCEPT !.n = n], DropBackZero(d, n), NoRet,
       IF n >= 0 THEN DropLast(ref, n) ELSE ref)

CallClearLazy == Call("ClearLazy", NoArg, ClearLazy(d), NoRet, <<>>)

CallClearEager == Call("ClearEager", NoArg, ClearEager(d), NoRet, <<>>)

CallResize(minCapacity) ==
  Call("Resize", [NoArg EXCEPT !.n = minCapacity], Resize(d, minCapacity).d,
       RetErr(Resize(d, minCapacity).err), ref)

CallReserve(n) ==
  Call("Reserve", [NoArg EXCEPT !.n = n], Reserve(d, n).d,
       RetErr(Reserve(d, n).err), ref)

CallShrink ==
  Call("Shrink", NoArg, Shrink(d).d, [NoRet EXCEPT !.n = Shrink(d).n], ref)

\* The int arguments the calls are given: -1..MaxArg, and the largest int.
MaxArg == 3
Ints == ((-1)..MaxArg) \cup {MaxInt}

Next ==
  \/ \E ts \in SeqsUpTo(MaxBatch) : CallPushBack(ts)
  \/ \E ts \in SeqsUpTo(MaxBatch) : CallPushFront(ts)
  \/ CallPopBack
  \/ CallPopFront
  \/ CallPopBackZero
  \/ CallPopFrontZero
  \/ CallPopBackShrink
  \/ CallPopFrontShrink
  \/ \E n \in Ints : CallDropFront(n)
  \/ \E n \in Ints : CallDropFrontZero(n)
  \/ \E n \in Ints : CallDropBack(n)
  \/ \E n \in Ints : CallDropBackZero(n)
  \/ CallClearLazy
  \/ CallClearEager
  \/ \E n \in Ints : CallResize(n)
  \/ \E n \in Ints : CallReserve(n)
  \/ CallShrink

Spec == Init /\ [][Next]_vars

\* Pushes, pops and the capacity calls alone.
NextCore ==
  \/ \E ts \in SeqsUpTo(MaxBatch) : CallPushBack(ts)
  \/ \E ts \in SeqsUpTo(MaxBatch) : CallPushFront(ts)
  \/ CallPopBack
  \/ CallPopFront
  \/ \E n \in Ints : CallResize(n)
  \/ \E n \in Ints : CallReserve(n)
  \/ CallShrink

SpecCore == Init /\ [][NextCore]_vars

\* ------------------------------------------- a deque copied from a slice
\* d is made by CopySliceToDeque(s), then pushed to and popped from, one
\* element at a time.
InitCopyAny == \E s \in SeqsUpTo(MaxSlice) : InitCopy(s)

NextCopy ==
  \/ \E v \in Values : CallPushBack(<<v>>)
  \/ CallPopFront

SpecCopy == InitCopyAny /\ [][NextCopy]_vars

\* --------------------------------------------------- two deques compared
\* d and d2 are made by MakeDequeWithCapacity (nil for a negative capacity).
InitEq ==
  \E c1 \in (-1)..MaxCap, c2 \in (-1)..MaxCap :
    /\ d = MakeDequeWithCapacity(c1).d
    /\ d2 = MakeDequeWithCapacity(c2).d
    /\ op = "MakeDequeWithCapacity"
    /\ arg = NoArg
    /\ ret = NoRet
    /\ ref = <<>>
    /\ realloc = FALSE

\* A call that changes d or d2 and returns nothing that is compared later.
Mutate(name, newd, newd2) ==
  /\ Bounded(newd) /\ Bounded(newd2)
  /\ d' = newd
  /\ d2' = newd2
  /\ op' = name
  /\ arg' = NoArg
  /\ ret' = NoRet
  /\ UNCHANGED <<ref, realloc>>

EqPushBack(v) == ~d.nil /\ Mutate("PushBack", PushBack(d, <<v>>), d2)
EqPushFront(v) == ~d.nil /\ Mutate("PushFront", PushFront(d, <<v>>), d2)
EqPopFront == ~d.nil /\ Mutate("PopFront", PopFront(d).d, d2)
\* d2 is only pushed to: a fresh deque holding its elements from slot 0.
EqPushBack2(v) == ~d2.nil /\ Mutate("PushBack", d, PushBack(d2, <<v>>))

\* The deque an argument of Equal names: 1 is d, 2 is d2.
Deq(k) == IF k = 1 THEN d ELSE d2

RetEqual(res) ==
  [NoRet EXCEPT !.ok = (res = "true"),
                !.err = IF res = "panic" THEN "panic" ELSE "nil"]

CallEqual(a, b) ==
  /\ op' = "Equal"
  /\ arg' = [NoArg EXCEPT !.ts = <<a, b>>]
  /\ ret' = RetEqual(Equal(Deq(a), Deq(b)))
  /\ UNCHANGED <<d, d2, ref, realloc>>

NextEq ==
  \/ \E v \in Values : EqPushBack(v)
  \/ \E v \in Values : EqPushFront(v)
  \/ EqPopFront
  \/ \E v \in Values : EqPushBack2(v)
  \/ \E a \in 1..2, b \in 1..2 : CallEqual(a, b)

SpecEq == InitEq /\ [][NextEq]_vars

\* ------------------------------------------------- pops that shrink
\* Pushes and the shrinking pops alone.
NextShrink ==
  \/ \E ts \in SeqsUpTo(MaxBatch) : CallPushBack(ts)
  \/ \E ts \in SeqsUpTo(MaxBatch) : CallPushFront(ts)
  \/ CallPopBackShrink
  \/ CallPopFrontShrink

SpecShrink == Init /\ [][NextShrink]_vars

\* --------------------------------------------------- indexed access
\* The list s with the elements at positions i and j (from 0) exchanged.
Exchanged(s, i, j) == [s EXCEPT ![i + 1] = s[j + 1], ![j + 1] = s[i + 1]]
InRange(s, i) == 0 <= i /\ i < Len(s)

\* A call that panicked returns nothing and leaves the deque as it was.
RetPanic(p) == [NoRet EXCEPT !.err = IF p THEN "panic" ELSE "nil"]
RetIndex(r) == [RetPanic(r.panic) EXCEPT !.t = r.t]

\* The indexed calls record what they returned, not their arguments: what
\* is claimed of them is stated for every argument in every state.
CallAt(i) == Call("At", NoArg, d, RetIndex(At(d, i)), ref)

CallSet(i, t) ==
  Call("Set", NoArg, Set(d, i, t).d, RetPanic(Set(d, i, t).panic),
       IF InRange(ref, i) THEN [ref EXCEPT ![i + 1] = t] ELSE ref)

CallSwap(i, j) ==
  Call("Swap", NoArg, Swap(d, i, j).d, RetPanic(Swap(d, i, j).panic),
       IF InRange(ref, i) /\ InRange(ref, j) THEN Exchanged(ref, i, j) ELSE ref)

\* PeekFrontUnsafe, PeekBackUnsafe and AtUnsafe with the buffer's index check.
PeekFrontIndex(dq) == Index(dq.buf, BitAnd(dq.head, dq.mask))
PeekBackIndex(dq) == Index(dq.buf, BitAnd(Sub(dq.tail, 1), dq.mask))
AtIndex(dq, i) == Index(dq.buf, Slot(dq, i))

CallPeekFrontUnsafe ==
  Call("PeekFrontUnsafe", NoArg, d, RetIndex(PeekFrontIndex(d)), ref)

CallPeekBackUnsafe ==
  Call("PeekBackUnsafe", NoArg, d, RetIndex(PeekBackIndex(d)), ref)

CallAtUnsafe(i) == Call("AtUnsafe", NoArg, d, RetIndex(AtIndex(d, i)), ref)

\* An unchecked write has no counterpart on the reference list when its index
\* is out of range: ref is then what the deque holds.
CallSetUnsafe(i, t) ==
  Call("SetUnsafe", NoArg, SetUnsafe(d, i, t).d,
       RetPanic(SetUnsafe(d, i, t).panic), Logical(SetUnsafe(d, i, t).d))

CallSwapUnsafe(i, j) ==
  Call("SwapUnsafe", NoArg, SwapUnsafe(d, i, j).d,
       RetPanic(SwapUnsafe(d, i, j).panic), Logical(SwapUnsafe(d, i, j).d))

\* Single pushes and pops, and the checked indexed calls.
NextIndex ==
  \/ \E v \in Values : CallPushBack(<<v>>)
  \/ \E v \in Values : CallPushFront(<<v>>)
  \/ CallPopBack
  \/ CallPopFront
  \/ \E i \in Ints : CallAt(i)
  \/ \E i \in Ints, v \in Values : CallSet(i, v)
  \/ \E i \in Ints, j \in Ints : CallSwap(i, j)

SpecIndex == Init /\ [][NextIndex]_vars

\* Single pushes and pops, and the unchecked calls.
NextUnsafe ==
  \/ \E v \in Values : CallPushBack(<<v>>)
  \/ \E v \in Values : CallPushFront(<<v>>)
  \/ CallPopBack
  \/ CallPopFront
  \/ CallPeekFrontUnsafe
  \/ CallPeekBackUnsafe
  \/ \E i \in Ints : CallAtUnsafe(i)
  \/ \E i \in Ints, v \in Values : CallSetUnsafe(i, v)
  \/ \E i \in Ints, j \in Ints : CallSwapUnsafe(i, j)

SpecUnsafe == Init /\ [][NextUnsafe]_vars

\* ------------------------------------------------------ zeroing pops
\* Pushes of non-zero elements (a zeroed slot is then told from a live one)
\* and the zeroing pops, one element at a time, on buffers of at most
\* MaxCapZero slots with counters within MaxCounterZero of zero.
MaxCapZero == 8
MaxCounterZero == 8

BoundedZero(dq) ==
  /\ cap(dq) <= MaxCapZero
  /\ ToInt(dq.head) \in (-MaxCounterZero)..MaxCounterZero
  /\ ToInt(dq.tail) \in (-MaxCounterZero)..MaxCounterZero

CallZero(name, a, newd, r, newref) ==
  /\ BoundedZero(newd)
  /\ d' = newd
  /\ op' = name
  /\ arg' = a
  /\ ret' = r
  /\ ref' = newref
  /\ realloc' = (cap(newd) # cap(d))
  /\ UNCHANGED d2

ZeroPushBack(v) ==
  CallZero("PushBack", [NoArg EXCEPT !.ts = <<v>>], PushBack(d, <<v>>), NoRet,
           Append(ref, v))

ZeroPushFront(v) ==
  CallZero("PushFront", [NoArg EXCEPT !.ts = <<v>>], PushFront(d, <<v>>), NoRet,
           <<v>> \o ref)

ZeroPopBackZero ==
  CallZero("PopBackZero", NoArg, PopBackZero(d).d, RetPop(PopBackZero(d)),
           DropLast(ref, 1))

ZeroPopFrontZero ==
  CallZero("PopFrontZero", NoArg, PopFrontZero(d).d, RetPop(PopFrontZero(d)),
           DropFirst(ref, 1))

InitZero == \E capacity \in 0..MaxCapZero : InitMake(capacity)

NextZero ==
  \/ \E v \in Values \ {Zero} : ZeroPushBack(v)
  \/ \E v \in Values \ {Zero} : ZeroPushFront(v)
  \/ ZeroPopBackZero
  \/ ZeroPopFrontZero

SpecZero == InitZero /\ [][NextZero]_vars

\* ----------------------------------------------------- drops and clears
\* Pushes, the four drops and ClearEager alone.
NextDrop ==
  \/ \E ts \in SeqsUpTo(MaxBatch) : CallPushBack(ts)
  \/ \E ts \in SeqsUpTo(MaxBatch) : CallPushFront(ts)
  \/ \E n \in Ints : CallDropFront(n)
  \/ \E n \in Ints : CallDropFrontZero(n)
  \/ \E n \in Ints : CallDropBack(n)
  \/ \E n \in Ints : CallDropBackZero(n)
  \/ CallClearEager

SpecDrop == Init /\ [][NextDrop]_vars

\* ------------------------------------------------- copies to a slice
\* The longest destination given to CopySlice: destinations are of length
\* 0..MaxBuf, filled with one element.
MaxBuf == 3
Filled(n, v) == [k \in 1..n |-> v]
Destinations == {Filled(n, v) : n \in 0..MaxBuf, v \in Values}

\* The calls that copy record the count they returned (the length of the
\* slice they returned) and whether they panicked.
RetCopy(p, n) == [RetPanic(p) EXCEPT !.n = n]

CallCopySlice(start, buf) ==
  Call("CopySlice", NoArg, d,
       RetCopy(CopySlice(d, start, buf).panic, CopySlice(d, start, buf).n), ref)

\* Single pushes and pops, and CopySlice.
NextCopySlice ==
  \/ \E v \in Values : CallPushBack(<<v>>)
  \/ \E v \in Values : CallPushFront(<<v>>)
  \/ CallPopBack
  \/ CallPopFront
  \/ \E start \in Ints, buf \in Destinations : CallCopySlice(start, buf)

SpecCopySlice == Init /\ [][NextCopySlice]_vars

CallMakeSliceIndexCopy(start, end) ==
  LET r == MakeSliceIndexCopy(d, start, end)
  IN Call("MakeSliceIndexCopy", NoArg, d, RetCopy(r.panic, Len(r.s)), ref)

CallMakeSliceIndexCopyWithCapacity(start, end, capacity) ==
  LET r == MakeSliceIndexCopyWithCapacity(d, start, end, capacity)
  IN Call("MakeSliceIndexCopyWithCapacity", NoArg, d,
          RetCopy(r.panic, Len(r.s)), ref)

\* Single pushes and pops, and the two range copies.
NextMakeSlice ==
  \/ \E v \in Values : CallPushBack(<<v>>)
  \/ \E v \in Values : CallPushFront(<<v>>)
  \/ CallPopBack
  \/ CallPopFront
  \/ \E start \in Ints, end \in Ints : CallMakeSliceIndexCopy(start, end)
  \/ \E start \in Ints, end \in Ints, capacity \in Ints :
       CallMakeSliceIndexCopyWithCapacity(start, end, capacity)

SpecMakeSlice == Init /\ [][NextMakeSlice]_vars

\* ---------------------------------------------------------- Min and Max
CallMax == Call("Max", NoArg, d, RetIndex(Max(d)), ref)
CallMin == Call("Min", NoArg, d, RetIndex(Min(d)), ref)

\* Single pushes and pops, Min and Max.
NextMinMax ==
  \/ \E v \in Values : CallPushBack(<<v>>)
  \/ \E v \in Values : CallPushFront(<<v>>)
  \/ CallPopBack
  \/ CallPopFront
  \/ CallMax
  \/ CallMin

SpecMinMax == Init /\ [][NextMinMax]_vars

\* -------------------------------------------------- MinFunc and MaxFunc
CallMaxFunc(c) ==
  Call("MaxFunc", [NoArg EXCEPT !.ts = <<c>>], d, RetIndex(MaxFunc(d, c)), ref)
CallMinFunc(c) ==
  Call("MinFunc", [NoArg EXCEPT !.ts = <<c>>], d, RetIndex(MinFunc(d, c)), ref)

\* Single pushes and pops, MinFunc and MaxFunc.
NextMinMaxFunc ==
  \/ \E v \in Values : CallPushBack(<<v>>)
  \/ \E v \in Values : CallPushFront(<<v>>)
  \/ CallPopBack
  \/ CallPopFront
  \/ \E c \in Comparators : CallMaxFunc(c)
  \/ \E c \in Comparators : CallMinFunc(c)

SpecMinMaxFunc == Init /\ [][NextMinMaxFunc]_vars

\* ------------------------------------------------------------ iteration
\* All and Iter record the number of pairs or elements they yielded.
CallAll == Call("All", NoArg, d, [NoRet EXCEPT !.n = Len(All(d))], ref)
CallIter == Call("Iter", NoArg, d, [NoRet EXCEPT !.n = Len(Iter(d))], ref)

\* Single pushes and pops, All and Iter.
NextAll ==
  \/ \E v \in Values : CallPushBack(<<v>>)
  \/ \E v \in Values : CallPushFront(<<v>>)
  \/ CallPopBack
  \/ CallPopFront
  \/ CallAll
  \/ CallIter

SpecAll == Init /\ [][NextAll]_vars

\* ---------------------------------------------------- Index and Contains
CallIndex(t) ==
  Call("Index", [NoArg EXCEPT !.ts = <<t>>], d,
       [NoRet EXCEPT !.n = DequeIndex(d, t)], ref)

CallContains(t) ==
  Call("Contains", [NoArg EXCEPT !.ts = <<t>>], d,
       [NoRet EXCEPT !.ok = Contains(d, t)], ref)

\* Single pushes and pops, Index and Contains.
NextSearch ==
  \/ \E v \in Values : CallPushBack(<<v>>)
  \/ \E v \in Values : CallPushFront(<<v>>)
  \/ CallPopBack
  \/ CallPopFront
  \/ \E t \in Values : CallIndex(t)
  \/ \E t \in Values : CallContains(t)

SpecSearch == Init /\ [][NextSearch]_vars

\* --------------------------------------------- nil and allocated deques
\* Two deques, each nil or allocated and pushed to at the back, compared.
NextEqNil ==
  \/ \E v \in Values : EqPushBack(v)
  \/ \E v \in Values : EqPushBack2(v)
  \/ \E a \in 1..2, b \in 1..2 : CallEqual(a, b)

SpecEqNil == InitEq /\ [][NextEqNil]_vars

\* ------------------------------------------------------------ the claims
Got(v) == [panic |-> FALSE, t |-> v]
PowersOfTwo == {Pow2(k) : k \in 0..(UintSize - 1)}
IsPow2(c) == c \in PowersOfTwo
\* The smallest power of two >= x.
SmallestPow2(x) ==
  CHOOSE p \in PowersOfTwo : p >= x /\ \A q \in PowersOfTwo : q >= x => p <= q
\* The live region is split in two physical runs.
Wrapped(dq) ==
  ~Empty(dq) /\ BitAnd(dq.head, dq.mask) >= BitAnd(dq.tail, dq.mask)
                /\ BitAnd(dq.tail, dq.mask) > 0

\* C1: whatever pushes and pops were called, Len() is the reference list's
\* length; a pop on an empty reference list returns (zero, false) and leaves
\* the deque as it was; any other pop returns (v, true) with v the element
\* the reference list removes at that end.
C1_Step ==
  /\ DequeLen(d) = Len(ref)
  /\ DequeLen(d') = Len(ref')
  /\ op' = "PopBack" =>
       IF ref = <<>>
       THEN ret' = NoRet /\ d' = d
       ELSE ret'.ok /\ ret'.t = ref[Len(ref)] /\ ref' = DropLast(ref, 1)
  /\ op' = "PopFront" =>
       IF ref = <<>>
       THEN ret' = NoRet /\ d' = d
       ELSE ret'.ok /\ ret'.t = ref[1] /\ ref' = DropFirst(ref, 1)
C1_MatchesReferenceList == [][C1_Step]_vars

\* A pop returned an element of a deque that has grown and whose live region
\* is split by the end of the buffer.
C1_Witness ==
  /\ op = "PopFront" /\ ret.ok /\ ret.t = 1
  /\ Wrapped(d) /\ cap(d) = MaxCap /\ DequeLen(d) >= 2

\* C2: PushBack(t1..tn) on a deque of length L gives At(L+k-1) = tk and
\* PeekBack() = tn; PushFront(t1..tn) gives At(n-k) = tk (the last argument
\* is the front); the elements stored before keep their order, before the
\* new ones (PushBack) or after them (PushFront); reallocating or not.
C2_Step ==
  LET L == DequeLen(d)
      ts == arg'.ts
      n == Len(ts)
  IN /\ op' = "PushBack" =>
          /\ DequeLen(d') = L + n
          /\ \A k \in 1..n : At(d', L + k - 1) = Got(ts[k])
          /\ n > 0 => PeekBack(d') = [t |-> ts[n], ok |-> TRUE]
          /\ \A i \in 0..(L - 1) : At(d', i) = At(d, i)
     /\ op' = "PushFront" =>
          /\ DequeLen(d') = L + n
          /\ \A k \in 1..n : At(d', n - k) = Got(ts[k])
          /\ n > 0 => At(d', 0) = Got(ts[n])
          /\ \A i \in 0..(L - 1) : At(d', n + i) = At(d, i)
C2_BatchOrder == [][C2_Step]_vars

\* A front push of two different elements onto a non-empty deque that had to
\* reallocate.
C2_Witness ==
  /\ op = "PushFront" /\ Len(arg.ts) = 2 /\ arg.ts[1] # arg.ts[2]
  /\ realloc /\ DequeLen(d) >= 3

\* C6: a push of n elements onto a deque of length L reallocates exactly
\* when L + n > Cap(), the capacity is then the smallest power of two
\* >= L + n, and is unchanged otherwise; one more element pushed on a full
\* deque doubles the capacity and keeps every element in order.
C6_Step ==
  LET L == DequeLen(d)
      n == Len(arg'.ts)
  IN op' \in {"PushBack", "PushFront"} =>
       /\ realloc' <=> L + n > Cap(d)
       /\ realloc' => Cap(d') = SmallestPow2(L + n)
       /\ ~realloc' => Cap(d') = Cap(d)
       /\ (Full(d) /\ n = 1 /\ op' = "PushBack") =>
            /\ Cap(d') = 2 * Cap(d)
            /\ Logical(d') = Logical(d) \o arg'.ts
C7_CapPowerOfTwo ==
  /\ IsPow2(cap(d))
  /\ Cap(d) >= 1
  /\ d.mask = Cap(d) - 1

\* A pop that shrank the buffer.
C7_Witness ==
  /\ op \in {"PopBackShrink", "PopFrontShrink"} /\ realloc
  /\ Cap(d) = 2 /\ DequeLen(d) = 1

\* C8: a reallocation keeps Len() and every At(i) and leaves head = 0 and
\* tail = Len(): for resize itself, whatever capacity it is given, and for
\* every call that reallocated (a push then moves tail, or head, by the
\* number of elements it was given).
C8_ReallocKeepsContents ==
  /\ \A newCap \in PowersOfTwo :
       LET r == resize(d, newCap)
       IN r.err = "nil" =>
            /\ cap(r.d) = newCap
            /\ Logical(r.d) = Logical(d)
            /\ r.d.head = 0
            /\ r.d.tail = DequeLen(d)
  /\ realloc =>
       /\ Logical(d) = ref
       /\ op \in {"Resize", "Reserve", "Shrink", "PopBackShrink", "PopFrontShrink"} =>
            d.head = 0 /\ d.tail = DequeLen(d)
       /\ op = "PushBack" => d.head = 0 /\ d.tail = DequeLen(d)
       /\ op = "PushFront" =>
            Add(d.head, Len(arg.ts)) = 0 /\ Add(d.tail, Len(arg.ts)) = DequeLen(d)

\* Resize reallocated a deque that holds two different elements.
C8_Witness ==
  /\ op = "Resize" /\ realloc /\ ret.err = "nil"
  /\ DequeLen(d) = 2 /\ d.buf[0] # d.buf[1] /\ Cap(d) = MaxCap

\* C9: Resize(minCapacity) returns ErrNegativeCapacity when minCapacity < 0,
\* ErrSameCapacity when the rounded-up power of two is the current capacity,
\* ErrNotEnoughCapacity when it is smaller than Len(), each time leaving the
\* deque (buffer, head, tail, capacity) as it was; otherwise it returns nil
\* and Cap() is the smallest power of two >= max(1, minCapacity).
C9_Step ==
  LET n == arg'.n
      want == SmallestPow2(Max2(1, n))
  IN op' = "Resize" =>
       /\ n < 0 => ret'.err = "ErrNegativeCapacity" /\ d' = d
       /\ (n >= 0 /\ want = Cap(d)) => ret'.err = "ErrSameCapacity" /\ d' = d
       /\ (n >= 0 /\ want < DequeLen(d)) =>
            ret'.err = "ErrNotEnoughCapacity" /\ d' = d
       /\ (n >= 0 /\ want # Cap(d) /\ want >= DequeLen(d)) =>
            ret'.err = "nil" /\ Cap(d') = want
C9_ResizeErrors == [][C9_Step]_vars

\* Resize refused a capacity too small for the elements stored.
C9_Witness ==
  /\ op = "Resize" /\ ret.err = "ErrNotEnoughCapacity"
  /\ arg.n >= 1 /\ DequeLen(d) > arg.n

\* C10: Reserve(n) with n >= 0 returns nil, and then Cap() - Len() >= n with
\* the logical sequence unchanged; with n < 0 it returns ErrNegativeCapacity
\* and leaves the deque as it was.
C10_Step ==
  LET n == arg'.n
  IN op' = "Reserve" =>
       IF n >= 0
       THEN /\ ret'.err = "nil"
            /\ Cap(d') - DequeLen(d') >= n
            /\ Logical(d') = Logical(d)
       ELSE ret'.err = "ErrNegativeCapacity" /\ d' = d
C10_Reserve == [][C10_Step]_vars

\* The same, for the calls where Len() + n has a power of two at or above it
\* in the word, so that ceilPow2 does not wrap to 0.
C10_StepInRange ==
  (op' = "Reserve" /\ DequeLen(d) + arg'.n <= Word \div 2) => C10_Step
C10_ReserveInRange == [][C10_StepInRange]_vars

\* Reserve(math.MaxInt) returned nil on a deque of two elements and left its
\* capacity as it was.
C10_Overflow ==
  /\ op = "Reserve" /\ arg.n = MaxInt /\ ret.err = "nil"
  /\ DequeLen(d) = 2 /\ ~realloc

\* C4: Equal on two non-nil deques returns without aborting, and returns
\* true exactly when they have the same length and the same element at
\* every index.
C4_EqualIsLogicalEquality ==
  (op = "Equal" /\ ~Deq(arg.ts[1]).nil /\ ~Deq(arg.ts[2]).nil) =>
    /\ ret.err # "panic"
    /\ ret.ok <=> Logical(Deq(arg.ts[1])) = Logical(Deq(arg.ts[2]))

\* C5: Equal(x, x) is true for every non-nil deque x, and Equal(x, y) and
\* Equal(y, x) return the same.
C5_EqualReflexiveSymmetric ==
  op = "Equal" =>
    /\ (arg.ts[1] = arg.ts[2] /\ ~Deq(arg.ts[1]).nil) =>
         ret.err # "panic" /\ ret.ok
    /\ ret = RetEqual(Equal(Deq(arg.ts[2]), Deq(arg.ts[1])))

\* C3: CopySliceToDeque(s) returns a deque with Len() = len(s), At(i) = s[i]
\* for every index of s, and Cap() the smallest power of two >= len(s).
C3_CopySliceToDeque ==
  op = "CopySliceToDeque" =>
    /\ DequeLen(d) = Len(arg.ts)
    /\ \A i \in 0..(Len(arg.ts) - 1) : At(d, i) = Got(arg.ts[i + 1])
    /\ Cap(d) = SmallestPow2(Len(arg.ts))

\* C11 as stated: after PopBackShrink or PopFrontShrink, if Len() is at most
\* a quarter of the capacity before the call then the capacity is at most
\* half of the capacity before the call, and the capacity is never below the
\* smallest power of two >= Len().
C11_StepAsStated ==
  op' \in {"PopBackShrink", "PopFrontShrink"} =>
    /\ 4 * DequeLen(d') <= Cap(d) => 2 * Cap(d') <= Cap(d)
    /\ Cap(d') >= SmallestPow2(DequeLen(d'))
C11_Step ==
  op' \in {"PopBackShrink", "PopFrontShrink"} =>
    /\ (Cap(d) >= 2 /\ 4 * DequeLen(d') <= Cap(d)) => 2 * Cap(d') <= Cap(d)
    /\ Cap(d) = 1 => Cap(d') = 1
    /\ 4 * DequeLen(d') > Cap(d) => Cap(d') = Cap(d)
    /\ Cap(d') >= SmallestPow2(DequeLen(d'))
C11_WitnessCapOne ==
  /\ op = "PopBackShrink" /\ ret.ok /\ ~realloc
  /\ Cap(d) = 1 /\ DequeLen(d) = 0

\* C12: At(i), Set(i, v) and Swap(i, j) panic exactly when an index is < 0 or
\* >= Len(), and then change nothing; in bounds, At(i) returns the i-th
\* element of the reference list, Set(i, v) makes At(i) = v and Swap(i, j)
\* exchanges positions i and j, no other logical position, Len() or Cap()
\* changing; the deque holds the reference list after any such calls.
C12_CheckedIndex ==
  /\ Logical(d) = ref
  /\ \A i \in Ints :
       /\ At(d, i).panic <=> ~InRange(ref, i)
       /\ InRange(ref, i) => At(d, i).t = ref[i + 1]
       /\ \A v \in Values :
            LET r == Set(d, i, v)
            IN /\ r.panic <=> ~InRange(ref, i)
               /\ r.panic => r.d = d
               /\ ~r.panic =>
                    /\ At(r.d, i) = Got(v)
                    /\ Logical(r.d) = [ref EXCEPT ![i + 1] = v]
                    /\ Cap(r.d) = Cap(d)
       /\ \A j \in Ints :
            LET r == Swap(d, i, j)
            IN /\ r.panic <=> ~(InRange(ref, i) /\ InRange(ref, j))
               /\ r.panic => r.d = d
               /\ ~r.panic =>
                    /\ Logical(r.d) = Exchanged(ref, i, j)
                    /\ Cap(r.d) = Cap(d)

\* Swap exchanged the two different ends of a deque whose live region is
\* split by the end of the buffer.
C12_Witness ==
  /\ op = "Swap" /\ ret.err = "nil"
  /\ Wrapped(d) /\ DequeLen(d) >= 3
  /\ AtUnsafe(d, 0) # AtUnsafe(d, DequeLen(d) - 1)
  /\ Swap(d, 0, DequeLen(d) - 1).d # d

\* A checked call panicked on a deque that holds elements.
C12_WitnessPanic ==
  /\ op = "Set" /\ ret.err = "panic" /\ DequeLen(d) > 0
  /\ Set(d, DequeLen(d), 1).panic

\* C13: on a constructed deque in any state and for any int index,
\* PeekFrontUnsafe, PeekBackUnsafe, AtUnsafe, SetUnsafe and SwapUnsafe do not
\* panic: they read or write the slot (head + i) mod Cap() of the buffer
\* (PeekFrontUnsafe with i = 0, PeekBackUnsafe the slot before tail) and
\* change nothing else.
C13_UnsafeNeverAborts ==
  LET slot(k) == (ToInt(d.head) + k) % Cap(d)
      back == (ToInt(d.tail) - 1) % Cap(d)
  IN /\ ret.err = "nil"
     /\ back \in DOMAIN d.buf
     /\ PeekFrontIndex(d) = Got(d.buf[slot(0)])
     /\ PeekBackIndex(d) = Got(d.buf[back])
     /\ \A i \in Ints :
          /\ slot(i) \in DOMAIN d.buf
          /\ AtIndex(d, i) = Got(d.buf[slot(i)])
          /\ \A v \in Values :
               SetUnsafe(d, i, v) =
                 [panic |-> FALSE, d |-> [d EXCEPT !.buf[slot(i)] = v]]
          /\ \A j \in Ints :
               SwapUnsafe(d, i, j) =
                 [panic |-> FALSE,
                  d |-> [d EXCEPT !.buf = [d.buf EXCEPT
                                             ![slot(i)] = d.buf[slot(j)],
                                             ![slot(j)] = d.buf[slot(i)]]]]

\* SetUnsafe wrote a stale slot of an empty deque whose counters have moved
\* off zero.
C13_Witness ==
  /\ op = "SetUnsafe" /\ ret.err = "nil"
  /\ Empty(d) /\ ToInt(d.head) < 0 /\ Cap(d) = MaxCap
  /\ AtIndex(d, -1) = Got(1) /\ AtIndex(d, MaxInt) = Got(1)

\* C14: when PopFrontZero or PopBackZero returns (v, true), the slot that
\* held v (head mod Cap() for the front, tail - 1 mod Cap() for the back)
\* holds zero afterwards and no other slot changed; when it returns
\* (zero, false) nothing changed; so a deque emptied by zeroing pops alone
\* (eight pushed at the back and eight popped from the front) has zero in
\* every slot.
C14_Step ==
  LET slot == IF op' = "PopFrontZero"
              THEN ToInt(d.head) % Cap(d)
              ELSE (ToInt(d.tail) - 1) % Cap(d)
  IN /\ op' \in {"PopFrontZero", "PopBackZero"} =>
          IF ret'.ok
          THEN /\ ref # <<>>
               /\ ret'.t = d.buf[slot]
               /\ ret'.t = (IF op' = "PopFrontZero" THEN ref[1] ELSE ref[Len(ref)])
               /\ d'.buf = [d.buf EXCEPT ![slot] = Zero]
               /\ DequeLen(d') = DequeLen(d) - 1
          ELSE ref = <<>> /\ d' = d
     /\ Empty(d') => \A k \in DOMAIN d'.buf : d'.buf[k] = Zero
C14_PopZero == [][C14_Step]_vars

\* Eight elements were pushed at the back of a deque and eight popped from
\* its front by PopFrontZero: it is empty and every slot is zero.
C14_Witness ==
  /\ op = "PopFrontZero" /\ ret.ok /\ ret.t # Zero
  /\ d.head = 8 /\ d.tail = 8 /\ Cap(d) = 8
  /\ \A k \in DOMAIN d.buf : d.buf[k] = Zero

\* The physical slots of the logical positions from..(to - 1) of dq.
SlotsOf(dq, from, to) ==
  {(ToInt(dq.head) + k) % Cap(dq) : k \in from..(to - 1)}

\* C15: after ClearEager, Len() = 0, Cap() is unchanged and every slot that
\* held a live element before the call holds zero.
C15_Step ==
  op' = "ClearEager" =>
    /\ DequeLen(d') = 0
    /\ Cap(d') = Cap(d)
    /\ \A k \in SlotsOf(d, 0, DequeLen(d)) : d'.buf[k] = Zero
C15_ClearEager == [][C15_Step]_vars

\* C16: after DropFrontZero(n) or DropBackZero(n) with n >= 0, every slot
\* vacated by the drop holds zero.
C16_Step ==
  LET n == arg'.n
      L == DequeLen(d)
      k == Min2(n, L)
  IN /\ (op' = "DropFrontZero" /\ n >= 0) =>
          \A s \in SlotsOf(d, 0, k) : d'.buf[s] = Zero
     /\ (op' = "DropBackZero" /\ n >= 0) =>
          \A s \in SlotsOf(d, L - k, L) : d'.buf[s] = Zero
C16_DropZero == [][C16_Step]_vars

\* C17: DropFront(n), DropBack(n), DropFrontZero(n) and DropBackZero(n) with
\* n >= 0 remove min(n, Len()) elements from their end, the elements that
\* remain keeping their values and order; with n < 0 they change nothing;
\* Cap() is unchanged.
C17_Step ==
  LET n == arg'.n
      L == Logical(d)
      k == Min2(n, Len(L))
  IN op' \in {"DropFront", "DropBack", "DropFrontZero", "DropBackZero"} =>
       /\ Cap(d') = Cap(d)
       /\ n < 0 => d' = d
       /\ (n >= 0 /\ op' \in {"DropFront", "DropFrontZero"}) =>
            /\ DequeLen(d') = Len(L) - k
            /\ Logical(d') = SubSeq(L, k + 1, Len(L))
       /\ (n >= 0 /\ op' \in {"DropBack", "DropBackZero"}) =>
            /\ DequeLen(d') = Len(L) - k
            /\ Logical(d') = SubSeq(L, 1, Len(L) - k)
       /\ Logical(d') = ref'
C17_Drop == [][C17_Step]_vars

\* DropBackZero(2) took two of three elements off a deque whose live region
\* is split by the end of the buffer, a non-zero element staying.
C17_Witness ==
  /\ op = "DropBackZero" /\ arg.n = 2 /\ DequeLen(d) = 1
  /\ Logical(d) = <<1>> /\ BitAnd(d.head, d.mask) = Cap(d) - 1
  /\ Cap(d) = MaxCap

\* A drop of more elements than the deque holds emptied it.
C17_WitnessAll ==
  /\ op = "DropFront" /\ arg.n = MaxInt /\ DequeLen(d) = 0 /\ d.head # 0

C19_MakeSliceIndexCopy ==
  \A start \in Ints, end \in Ints :
    LET valid == 0 <= start /\ start <= end /\ end <= Len(ref)
        r == MakeSliceIndexCopy(d, start, end)
    IN /\ valid => ~r.panic /\ r.s = SubSeq(ref, start + 1, end)
       /\ ~valid => r.panic
       /\ \A capacity \in Ints :
            LET rc == MakeSliceIndexCopyWithCapacity(d, start, end, capacity)
            IN /\ (valid /\ end - start <= capacity) =>
                    ~rc.panic /\ rc.s = SubSeq(ref, start + 1, end)
               /\ ~valid => rc.panic

\* C19, first half alone: in a valid range MakeSliceIndexCopy returns the
\* elements At(start), ..., At(end - 1).
C19_ValidRange ==
  \A start \in Ints, end \in Ints :
    (0 <= start /\ start <= end /\ end <= Len(ref)) =>
      MakeSliceIndexCopy(d, start, end) =
        [panic |-> FALSE, s |-> SubSeq(ref, start + 1, end)]

\* The elements of a list.
Range(s) == {s[k] : k \in 1..Len(s)}

\* C20: on every non-empty deque Min and Max return the least and the
\* greatest stored element without panicking; on an empty deque they panic.
C20_MinMax ==
  IF ref = <<>>
  THEN Max(d).panic /\ Min(d).panic
  ELSE /\ ~Max(d).panic /\ ~Min(d).panic
       /\ Max(d).t \in Range(ref) /\ \A v \in Range(ref) : v <= Max(d).t
       /\ Min(d).t \in Range(ref) /\ \A v \in Range(ref) : Min(d).t <= v

\* C20 on the deques whose second run is nil or holds an element (tail not
\* on the physical end of the buffer): there Min and Max return the least
\* and the greatest element.
C20_MinMaxOffTheEnd ==
  (ref # <<>> /\ BitAnd(d.tail, d.mask) # 0) =>
    /\ Max(d) \in {Got(v) : v \in Range(ref)}
    /\ Min(d) \in {Got(v) : v \in Range(ref)}
    /\ \A v \in Range(ref) : Min(d).t <= v /\ v <= Max(d).t

\* C21: on every non-empty deque and for every comparator, MaxFunc(d, cmp)
\* and MinFunc(d, cmp) return what slices.MaxFunc and slices.MinFunc return
\* with cmp on the slice d.MakeSliceCopy(), the live region being split in
\* two runs or not.
C21_MinMaxFunc ==
  ~Empty(d) =>
    \A c \in Comparators :
      /\ MaxFunc(d, c) = SeqMaxFunc(MakeSliceCopy(d), c)
      /\ MinFunc(d, c) = SeqMinFunc(MakeSliceCopy(d), c)

\* C21 for the natural order on the deques whose tail is not on the
\* physical end of the buffer.
C21_NaturalOffTheEnd ==
  (~Empty(d) /\ BitAnd(d.tail, d.mask) # 0) =>
    /\ MaxFunc(d, "natural") = SeqMaxFunc(MakeSliceCopy(d), "natural")
    /\ MinFunc(d, "natural") = SeqMinFunc(MakeSliceCopy(d), "natural")

\* C21 without the panics: whenever MaxFunc and MinFunc return, they return
\* what slices.MaxFunc and slices.MinFunc return on the logical sequence.
C21_WhenReturning ==
  \A c \in Comparators :
    /\ ~MaxFunc(d, c).panic => MaxFunc(d, c) = SeqMaxFunc(MakeSliceCopy(d), c)
    /\ ~MinFunc(d, c).panic => MinFunc(d, c) = SeqMinFunc(MakeSliceCopy(d), c)

\* C22: All() yields the pairs (i, At(i)) for i = 0, ..., Len() - 1 in
\* increasing order, the live region wrapping past the end of the buffer or
\* not; a nil or empty deque yields no pair; iterating leaves the deque as
\* it was, so that iterating again yields the same.
C22_All ==
  /\ All(d) = [k \in 1..Len(ref) |-> <<k - 1, ref[k]>>]
  /\ All(NilDeque) = <<>>
  /\ Empty(d) => All(d) = <<>>

\* C22 for the elements alone: All() and Iter() yield At(0), ...,
\* At(Len() - 1) in order.
C22_Elements ==
  /\ [k \in 1..Len(All(d)) |-> All(d)[k][2]] = ref
  /\ Iter(d) = ref

\* C22 on the deques held in one run.
C22_OneRun ==
  slices(d)[2].len = 0 => All(d) = [k \in 1..Len(ref) |-> <<k - 1, ref[k]>>]

\* C23: Index(d, t) returns the smallest i with At(i) = t, or -1 when no
\* element equals t, and Contains(d, t) is true exactly when Index(d, t) is
\* not -1, the first match lying in the first run or in the second; the
\* calls return that and leave the deque as it was.
C23_Step ==
  LET t == arg'.ts[1]
      found == {i \in 0..(Len(ref) - 1) : ref[i + 1] = t}
      first == IF found = {} THEN -1
               ELSE CHOOSE i \in found : \A m \in found : i <= m
  IN /\ Logical(d) = ref
     /\ op' = "Index" =>
          /\ ret'.n = first
          /\ first # -1 => At(d, first) = Got(t)
          /\ d' = d
     /\ op' = "Contains" =>
          /\ ret'.ok <=> first # -1
          /\ ret'.ok <=> DequeIndex(d, t) # -1
          /\ d' = d
C23_IndexContains == [][C23_Step]_vars

\* Index found its first match in the second run of a deque whose live
\* region is split, behind two elements of the first run.
C23_Witness ==
  /\ op = "Index" /\ arg.ts = <<1>> /\ ret.n = 2
  /\ slices(d)[1].len = 2 /\ slices(d)[2].len >= 1
  /\ Logical(d)[1] = 0 /\ Logical(d)[2] = 0

\* C24: Equal(nil, nil) is true, and Equal(d, nil) and Equal(nil, d) are
\* false for every non-nil deque d, one that is allocated and holds no
\* element included; none of them panics.
C24_EqualNil ==
  /\ Equal(NilDeque, NilDeque) = "true"
  /\ \A x \in {d, d2} :
       ~x.nil => Equal(x, NilDeque) = "false" /\ Equal(NilDeque, x) = "false"
  /\ (op = "Equal" /\ (Deq(arg.ts[1]).nil \/ Deq(arg.ts[2]).nil)) =>
       /\ ret.err = "nil"
       /\ ret.ok <=> (Deq(arg.ts[1]).nil /\ Deq(arg.ts[2]).nil)

\* Equal(nil, d) returned false for an allocated deque d that holds no
\* element.
C24_Witness ==
  /\ op = "Equal" /\ arg.ts = <<1, 2>> /\ ret = RetEqual("false")
  /\ d.nil /\ ~d2.nil /\ DequeLen(d2) = 0

\* Equal(nil, nil) returned true.
C24_WitnessBothNil ==
  /\ op = "Equal" /\ arg.ts = <<1, 2>> /\ ret = RetEqual("true")
  /\ d.nil /\ d2.nil

\* C25: Reserve(n) leaves Cap() as it was when Cap() - Len() >= n before the
\* call, and never makes Cap() smaller.
C25_Step ==
  LET n == arg'.n
  IN op' = "Reserve" =>
       /\ (n >= 0 /\ Cap(d) - DequeLen(d) >= n) => Cap(d') = Cap(d)
       /\ Cap(d') >= Cap(d)
C25_ReserveOnlyGrows == [][C25_Step]_vars

\* Reserve(n) made the buffer smaller although it had room for n more
\* elements.
C25_Shrunk ==
  /\ op = "Reserve" /\ arg.n = 1 /\ ret.err = "nil" /\ realloc
  /\ DequeLen(d) = 1 /\ 2 * Cap(d) = MaxCap

\* C26: whatever calls were made, the difference (tail - head) mod 2^w is
\* Len() and lies between 0 and Cap(), also when PushFront has taken head
\* below zero, so that head is the greater of the two counters.
C26_LenWithinCap ==
  LET diff == (d.tail - d.head) % Word
  IN /\ 0 <= diff /\ diff <= Cap(d)
     /\ diff = DequeLen(d)
     /\ diff = Len(ref)

\* PushFront filled a deque whose head counter is below zero and whose tail
\* counter is above it.
C26_Witness ==
  /\ op = "PushFront" /\ d.head > d.tail /\ d.tail > 0
  /\ ToInt(d.head) < 0 /\ Full(d) /\ Cap(d) = MaxCap

\* C27 as stated: head and tail never decrease from one call to the next
\* except in a reallocation.
C27_StepAsStated ==
  realloc' \/ (d'.head >= d.head /\ d'.tail >= d.tail)
C27_Step ==
  LET n == Len(arg'.ts)
      removed == DequeLen(d) - DequeLen(d')
      moved(h, t) == d'.head = h % Word /\ d'.tail = t % Word
      base == IF realloc' THEN [head |-> 0, tail |-> DequeLen(d)]
              ELSE [head |-> d.head, tail |-> d.tail]
  IN /\ op' = "PushBack" => moved(base.head, base.tail + n)
     /\ op' = "PushFront" => moved(base.head - n, base.tail)
     /\ op' \in {"PopFront", "PopFrontZero", "DropFront", "DropFrontZero"} =>
          ~realloc' /\ removed >= 0 /\ moved(d.head + removed, d.tail)
     /\ op' \in {"PopBack", "PopBackZero", "DropBack", "DropBackZero"} =>
          ~realloc' /\ removed >= 0 /\ moved(d.head, d.tail - removed)
     /\ op' = "PopFrontShrink" =>
          /\ removed \in {0, 1}
          /\ IF realloc' THEN moved(0, DequeLen(d'))
             ELSE moved(d.head + removed, d.tail)
     /\ op' = "PopBackShrink" =>
          /\ removed \in {0, 1}
          /\ IF realloc' THEN moved(0, DequeLen(d'))
             ELSE moved(d.head, d.tail - removed)
     /\ op' \in {"ClearLazy", "ClearEager"} => ~realloc' /\ moved(0, 0)
     /\ op' \in {"Resize", "Reserve", "Shrink"} => moved(base.head, base.tail)
C27_WitnessClear ==
  /\ op = "ClearLazy" /\ ~realloc /\ d.head = 0 /\ d.tail = 0
  /\ Cap(d) = MaxCap /\ \E k \in DOMAIN d.buf : d.buf[k] # Zero

====
